---- MODULE Spec2Model ----
(***************************************************************************)
(* Model of Hungarian<T> (src/hungarian.h): the Kuhn-Munkres solver with   *)
(* its two parallel inner loops, driven as in src/example.cpp:             *)
(* construct, setCost, compute.                                            *)
(*                                                                         *)
(* T is a floating type with an infinity.  Finite costs are modelled by    *)
(* integers (exact arithmetic); +infinity, -infinity and NaN are three     *)
(* distinguished values with the IEEE rules for +, - and <.                *)
(***************************************************************************)
EXTENDS Integers, Sequences, FiniteSets, TLC

\* ------------------------------------------------------------------------
\* Bounds of the model
\* ------------------------------------------------------------------------
MaxDim == 3          \* rows, columns given to the constructor: 1..MaxDim
MaxCost == 1         \* finite costs given to setCost: 0..MaxCost
MaxWorkers == 2      \* std::thread::hardware_concurrency(): 0..MaxWorkers
MaxFillCost == 2     \* costs of a matrix the driver fills entirely: 0..MaxFillCost
MaxPatternRows == 5  \* matrix size when rebalanceWorkers is run on coverage patterns
MaxPatternWorkers == 4   \* worker count when it is run on coverage patterns
MaxFinite == 12      \* the largest finite value of T, std::numeric_limits<T>::max()

\* ------------------------------------------------------------------------
\* The cost type T
\* ------------------------------------------------------------------------
vFill == 1000                      \* std::numeric_limits<T>::infinity()
NegInf == 0 - vFill                \* -infinity
NaN == vFill + vFill               \* the result of inf - inf
NoCol == 0 - 1                     \* static_cast<size_t>(-1)

IsFinite(v) == v # vFill /\ v # NegInf /\ v # NaN

\* a finite result beyond the largest finite value of T is an infinity
Overflow(v) == IF v > MaxFinite THEN vFill ELSE IF v < 0 - MaxFinite THEN NegInf ELSE v

Plus(a, b) ==
  IF a = NaN \/ b = NaN THEN NaN
  ELSE IF a = vFill THEN (IF b = NegInf THEN NaN ELSE vFill)
  ELSE IF a = NegInf THEN (IF b = vFill THEN NaN ELSE NegInf)
  ELSE IF b = vFill \/ b = NegInf THEN b
  ELSE Overflow(a + b)

Minus(a, b) ==
  IF a = NaN \/ b = NaN THEN NaN
  ELSE IF a = vFill THEN (IF b = vFill THEN NaN ELSE vFill)
  ELSE IF a = NegInf THEN (IF b = NegInf THEN NaN ELSE NegInf)
  ELSE IF b = vFill THEN NegInf
  ELSE IF b = NegInf THEN vFill
  ELSE Overflow(a - b)

Less(a, b) == a # NaN /\ b # NaN /\ a < b

\* std::min(a, b): b < a ? b : a
StdMin(a, b) == IF Less(b, a) THEN b ELSE a

\* ------------------------------------------------------------------------
\* State
\* ------------------------------------------------------------------------
VARIABLES
  rows, cols,        \* the constructor's arguments
  cost,              \* row major, numRow * numCol cells
  orig,              \* history: the costs as the caller set them
  colCovered, rowCovered,
  zeros,             \* per row, the columns pushed as zero
  primedZeros, starredZeros,
  primedSince,       \* history: the rows primed since the last augmentation
  rowSequence, colSequence,
  colInds,
  workers,           \* per worker: running flag and current row
  workerRows, workerCosts,
  colMin,            \* compute()'s local
  r, c, h,           \* iterate()'s locals
  snap,              \* history: cost and zeros when updateCosts was called
  pc                 \* position of the caller inside compute()/iterate()

vars == <<rows, cols, cost, orig, colCovered, rowCovered, zeros, primedZeros,
          primedSince, starredZeros, rowSequence, colSequence, colInds, workers,
          workerRows, workerCosts, colMin, r, c, h, snap, pc>>

Max(a, b) == IF a > b THEN a ELSE b

numRow == Max(rows, cols)
numCol == Max(rows, cols)
RowIdx == 0 .. numRow - 1
ColIdx == 0 .. numCol - 1
W == Cardinality(DOMAIN workers)
WorkerIdx == 0 .. W - 1

\* index[row]: offset of the row in the row major buffer
index(row) == row * numCol

Cell(cst, row, col) == cst[index(row) + col]

NoSnap == [cost |-> <<>>, zeros |-> <<>>]

\* ------------------------------------------------------------------------
\* Constructor
\* ------------------------------------------------------------------------
\* the members the constructor sizes, for Hungarian(nr, nc) on a machine
\* where hardware_concurrency() is hc
Members(nr, nc, hc) ==
  /\ rows = nr
  /\ cols = nc
  /\ workers = [i \in 0 .. Max(hc, 1) - 1 |-> [run |-> FALSE, row |-> 0]]
  /\ colCovered = [col \in ColIdx |-> FALSE]
  /\ rowCovered = [row \in RowIdx |-> FALSE]
  /\ zeros = [row \in RowIdx |-> <<>>]
  /\ primedZeros = [row \in RowIdx |-> 0]
  /\ primedSince = {}
  /\ starredZeros = [row \in RowIdx |-> NoCol]
  /\ rowSequence = <<>>
  /\ colSequence = <<>>
  /\ colInds = <<>>
  /\ workerRows = [i \in 0 .. W |-> 0]
  /\ workerCosts = [i \in WorkerIdx |-> 0]

\* the constructor: the members, and every cell of the square buffer at vFill
Hungarian(nr, nc, hc) ==
  /\ Members(nr, nc, hc)
  /\ cost = [k \in 0 .. numRow * numCol - 1 |-> vFill]

Init ==
  /\ \E nr \in 1 .. MaxDim, nc \in 1 .. MaxDim, hc \in 0 .. MaxWorkers : Hungarian(nr, nc, hc)
  /\ orig = cost
  /\ colMin = <<>>
  /\ r = 0
  /\ c = 0
  /\ h = 0
  /\ snap = NoSnap
  /\ pc = "idle"

\* ------------------------------------------------------------------------
\* setCost(row, col, c), called with row < rows, col < cols before compute()
\* ------------------------------------------------------------------------
setCost(row, col, v) ==
  /\ pc = "idle"
  /\ cost' = [cost EXCEPT ![index(row) + col] = v]
  /\ orig' = cost'
  /\ UNCHANGED <<rows, cols, colCovered, rowCovered, zeros, primedZeros, primedSince,
                 starredZeros, rowSequence, colSequence, colInds, workers,
                 workerRows, workerCosts, colMin, r, c, h, snap, pc>>

\* ------------------------------------------------------------------------
\* compute(): row reduction, column reduction, initial starring
\* ------------------------------------------------------------------------
RECURSIVE MinElementFrom(_, _, _, _)
MinElementFrom(cst, row, col, best) ==
  IF col >= numCol THEN best
  ELSE MinElementFrom(cst, row, col + 1,
         IF Less(Cell(cst, row, col), best) THEN Cell(cst, row, col) ELSE best)

\* *std::min_element over the cells of one row
RowMin(cst, row) == MinElementFrom(cst, row, 1, Cell(cst, row, 0))

\* the row reduction without the "h != vFill" test
RowReducedNoGuard(cst) ==
  [k \in DOMAIN cst |-> Minus(cst[k], RowMin(cst, k \div numCol))]

\* the row after "if(h != vFill) subtract h from each cell"
RowReduced(cst) ==
  [k \in DOMAIN cst |->
     LET hh == RowMin(cst, k \div numCol)
     IN  IF hh # vFill THEN Minus(cst[k], hh) ELSE cst[k]]

RECURSIVE ColMinFrom(_, _, _, _)
ColMinFrom(cst, col, row, acc) ==
  IF row >= numRow THEN acc
  ELSE ColMinFrom(cst, col, row + 1, StdMin(Cell(cst, row, col), acc))

ReduceRows ==
  /\ pc = "idle"
  /\ cost' = RowReduced(cost)
  /\ colMin' = [col \in ColIdx |-> ColMinFrom(cost', col, 0, vFill)]
  /\ pc' = "colreduce"
  /\ UNCHANGED <<rows, cols, orig, colCovered, rowCovered, zeros, primedZeros, primedSince,
                 starredZeros, rowSequence, colSequence, colInds, workers,
                 workerRows, workerCosts, r, c, h, snap>>

\* colMin after "v == vFill ? 0 : v"
ColMinFixed(cm) == [col \in DOMAIN cm |-> IF cm[col] = vFill THEN 0 ELSE cm[col]]

ColReduced(cst, cm) ==
  [k \in DOMAIN cst |-> Minus(cst[k], ColMinFixed(cm)[k % numCol])]

ReduceCols ==
  /\ pc = "colreduce"
  /\ cost' = ColReduced(cost, colMin)
  /\ colMin' = ColMinFixed(colMin)
  /\ pc' = "star"
  /\ UNCHANGED <<rows, cols, orig, colCovered, rowCovered, zeros, primedZeros, primedSince,
                 starredZeros, rowSequence, colSequence, colInds, workers,
                 workerRows, workerCosts, r, c, h, snap>>

\* the columns 0 .. numCol-1 in order
ColSeq == [i \in 1 .. numCol |-> i - 1]

IsZeroCell(cst, row, col) == Cell(cst, row, col) = 0

\* the scan with the test "!rowCovered[row]" only
RECURSIVE StarScanRowOnly(_, _, _)
StarScanRowOnly(cst, k, st) ==
  IF k >= numRow * numCol THEN st
  ELSE LET row == k \div numCol
           col == k % numCol
       IN  IF IsZeroCell(cst, row, col) /\ ~st.rowCovered[row]
           THEN StarScanRowOnly(cst, k + 1,
                  [rowCovered |-> [st.rowCovered EXCEPT ![row] = TRUE],
                   colCovered |-> [st.colCovered EXCEPT ![col] = TRUE],
                   starredZeros |-> [st.starredZeros EXCEPT ![row] = col]])
           ELSE StarScanRowOnly(cst, k + 1, st)

\* the row major scan that pushes every zero and stars the first zero of a
\* row whose row and column hold no star yet; st = covers and stars so far
RECURSIVE StarScan(_, _, _)
StarScan(cst, k, st) ==
  IF k >= numRow * numCol THEN st
  ELSE LET row == k \div numCol
           col == k % numCol
       IN  IF IsZeroCell(cst, row, col) /\ ~st.rowCovered[row] /\ ~st.colCovered[col]
           THEN StarScan(cst, k + 1,
                  [rowCovered |-> [st.rowCovered EXCEPT ![row] = TRUE],
                   colCovered |-> [st.colCovered EXCEPT ![col] = TRUE],
                   starredZeros |-> [st.starredZeros EXCEPT ![row] = col]])
           ELSE StarScan(cst, k + 1, st)

\* cover all columns with starred zeros
CoverStarred(sz) == [col \in ColIdx |-> \E row \in RowIdx : sz[row] = col]

StarZeros ==
  /\ pc = "star"
  /\ zeros' = [row \in RowIdx |->
                 zeros[row] \o SelectSeq(ColSeq, LAMBDA col : IsZeroCell(cost, row, col))]
  /\ starredZeros' = StarScan(cost, 0, [rowCovered |-> rowCovered,
                                         colCovered |-> colCovered,
                                         starredZeros |-> starredZeros]).starredZeros
  /\ rowCovered' = [row \in RowIdx |-> FALSE]
  /\ colCovered' = CoverStarred(starredZeros')
  /\ pc' = "loop"
  /\ UNCHANGED <<rows, cols, cost, orig, primedZeros, primedSince, rowSequence, colSequence,
                 colInds, workers, workerRows, workerCosts, colMin, r, c, h, snap>>

\* ------------------------------------------------------------------------
\* compute(): while(!all_of(colCovered)) iterate(); return starredZeros
\* ------------------------------------------------------------------------
AllColsCovered == \A col \in ColIdx : colCovered[col]

CallIterate ==
  /\ pc = "loop"
  /\ ~AllColsCovered
  /\ pc' = "search"
  /\ UNCHANGED <<rows, cols, cost, orig, colCovered, rowCovered, zeros,
                 primedZeros, primedSince, starredZeros, rowSequence, colSequence, colInds,
                 workers, workerRows, workerCosts, colMin, r, c, h, snap>>

Return ==
  /\ pc = "loop"
  /\ AllColsCovered
  /\ pc' = "done"
  /\ UNCHANGED <<rows, cols, cost, orig, colCovered, rowCovered, zeros,
                 primedZeros, primedSince, starredZeros, rowSequence, colSequence, colInds,
                 workers, workerRows, workerCosts, colMin, r, c, h, snap>>

\* ------------------------------------------------------------------------
\* iterate(): search, cover shift, augmenting path
\* ------------------------------------------------------------------------
\* rows and columns findUncoveredZero can stop at
HasUncoveredZero(row) ==
  ~rowCovered[row] /\ \E i \in 1 .. Len(zeros[row]) : ~colCovered[zeros[row][i]]

UncoveredZeroRows == {row \in RowIdx : HasUncoveredZero(row)}

\* findUncoveredZero: first uncovered row, first listed uncovered column
findUncoveredZero ==
  IF UncoveredZeroRows = {} THEN [found |-> FALSE, row |-> numRow, col |-> c]
  ELSE LET row == CHOOSE x \in UncoveredZeroRows : \A y \in UncoveredZeroRows : x <= y
           i == CHOOSE j \in 1 .. Len(zeros[row]) :
                   /\ ~colCovered[zeros[row][j]]
                   /\ \A l \in 1 .. j - 1 : colCovered[zeros[row][l]]
       IN  [found |-> TRUE, row |-> row, col |-> zeros[row][i]]

\* findStarredZeroInCol: first row whose star is in col
StarRows(sz, col) == {row \in RowIdx : sz[row] = col}

findStarredZeroInCol(sz, col) ==
  IF StarRows(sz, col) = {} THEN [found |-> FALSE, row |-> numRow]
  ELSE [found |-> TRUE,
        row |-> CHOOSE x \in StarRows(sz, col) : \A y \in StarRows(sz, col) : x <= y]

\* the cover shift that covers the row and leaves the star's column covered
CoverShiftKeepColumn ==
  /\ pc = "search"
  /\ LET f == findUncoveredZero
     IN  /\ f.found
         /\ starredZeros[f.row] # NoCol
         /\ primedZeros' = [primedZeros EXCEPT ![f.row] = f.col]
         /\ primedSince' = primedSince \cup {f.row}
         /\ rowCovered' = [rowCovered EXCEPT ![f.row] = TRUE]
         /\ r' = f.row
         /\ c' = f.col
  /\ UNCHANGED <<rows, cols, cost, orig, colCovered, zeros, starredZeros,
                 rowSequence, colSequence, colInds, workers, workerRows,
                 workerCosts, colMin, h, snap, pc>>

\* the cover shift without primedZeros[r] = c
CoverShiftNoPrime ==
  /\ pc = "search"
  /\ LET f == findUncoveredZero
     IN  /\ f.found
         /\ starredZeros[f.row] # NoCol
         /\ rowCovered' = [rowCovered EXCEPT ![f.row] = TRUE]
         /\ colCovered' = [colCovered EXCEPT ![starredZeros[f.row]] = FALSE]
         /\ r' = f.row
         /\ c' = f.col
  /\ UNCHANGED <<rows, cols, cost, orig, zeros, primedZeros, primedSince,
                 starredZeros, rowSequence, colSequence, colInds, workers,
                 workerRows, workerCosts, colMin, h, snap, pc>>

\* the found zero is in a row with a star: cover the row, uncover the star's column
CoverShift ==
  /\ pc = "search"
  /\ LET f == findUncoveredZero
     IN  /\ f.found
         /\ starredZeros[f.row] # NoCol
         /\ primedZeros' = [primedZeros EXCEPT ![f.row] = f.col]
         /\ primedSince' = primedSince \cup {f.row}
         /\ rowCovered' = [rowCovered EXCEPT ![f.row] = TRUE]
         /\ colCovered' = [colCovered EXCEPT ![starredZeros[f.row]] = FALSE]
         /\ r' = f.row
         /\ c' = f.col
  /\ UNCHANGED <<rows, cols, cost, orig, zeros, starredZeros, rowSequence,
                 colSequence, colInds, workers, workerRows, workerCosts, colMin,
                 h, snap, pc>>

\* the found zero is in a row without a star: start the sequence
StartPath ==
  /\ pc = "search"
  /\ LET f == findUncoveredZero
     IN  /\ f.found
         /\ starredZeros[f.row] = NoCol
         /\ primedZeros' = [primedZeros EXCEPT ![f.row] = f.col]
         /\ primedSince' = primedSince \cup {f.row}
         /\ rowSequence' = <<f.row>>
         /\ colSequence' = <<f.col>>
         /\ r' = f.row
         /\ c' = f.col
  /\ pc' = "path"
  /\ UNCHANGED <<rows, cols, cost, orig, colCovered, rowCovered, zeros,
                 starredZeros, colInds, workers, workerRows, workerCosts, colMin,
                 h, snap>>

\* while(findStarredZeroInCol(r, c)): follow the star to its row's prime
ExtendPath ==
  /\ pc = "path"
  /\ LET f == findStarredZeroInCol(starredZeros, c)
     IN  /\ f.found
         /\ r' = f.row
         /\ c' = primedZeros[f.row]
         /\ rowSequence' = Append(rowSequence, f.row)
         /\ colSequence' = Append(colSequence, primedZeros[f.row])
  /\ UNCHANGED <<rows, cols, cost, orig, colCovered, rowCovered, zeros,
                 primedZeros, primedSince, starredZeros, colInds, workers, workerRows,
                 workerCosts, colMin, h, snap, pc>>

\* the loop over the sequence started one entry late
RECURSIVE StarSequenceFromSecond(_, _, _, _)
StarSequenceFromSecond(sz, rs, cs, i) ==
  IF i + 1 > Len(cs) THEN sz
  ELSE StarSequenceFromSecond([sz EXCEPT ![rs[i + 1]] = cs[i + 1]], rs, cs, i + 1)

\* starredZeros[rowSequence[i]] = colSequence[i], for i in order
RECURSIVE StarSequence(_, _, _, _)
StarSequence(sz, rs, cs, i) ==
  IF i > Len(cs) THEN sz
  ELSE StarSequence([sz EXCEPT ![rs[i]] = cs[i]], rs, cs, i + 1)

\* the sequence is complete: star it, uncover everything, cover the star columns
Augment ==
  /\ pc = "path"
  /\ ~findStarredZeroInCol(starredZeros, c).found
  /\ starredZeros' = StarSequence(starredZeros, rowSequence, colSequence, 1)
  /\ rowCovered' = [row \in RowIdx |-> FALSE]
  /\ colCovered' = CoverStarred(starredZeros')
  /\ primedSince' = {}
  /\ r' = 0
  /\ c' = 0
  /\ pc' = "loop"
  /\ UNCHANGED <<rows, cols, cost, orig, zeros, primedZeros, rowSequence,
                 colSequence, colInds, workers, workerRows, workerCosts, colMin,
                 h, snap>>

\* ------------------------------------------------------------------------
\* iterate(): no uncovered zero; fillColInds, rebalanceWorkers
\* ------------------------------------------------------------------------
\* fillColInds: the uncovered columns in order
fillColInds(cc) == SelectSeq(ColSeq, LAMBDA col : ~cc[col])

\* std::count(rowCovered, false)
uncoveredRows(rc) == Cardinality({row \in RowIdx : ~rc[row]})

\* the count as it would be for a comparison made after the increment
rowsPerWorkerLess(rc) == Max(uncoveredRows(rc) \div W, 1) - 1

\* (size_t) std::ceil(uncoveredRows / workers.size()): the division is integral
rowsPerWorker(rc) == uncoveredRows(rc) \div W

\* the loop over the rows; st = [ind, rowCount, workerRows, written]
\* (written: every index of workerRows the loop assigned)
RECURSIVE RebalanceScan(_, _, _)
RebalanceScan(rc, row, st) ==
  IF row >= numRow THEN st
  ELSE IF ~rc[row]
       THEN IF rowsPerWorker(rc) = st.rowCount
            THEN RebalanceScan(rc, row + 1,
                   [ind |-> st.ind + 1,
                    rowCount |-> 0,
                    workerRows |-> IF st.ind \in DOMAIN st.workerRows
                                   THEN [st.workerRows EXCEPT ![st.ind] = row]
                                   ELSE st.workerRows,
                    written |-> st.written \cup {st.ind}])
            ELSE RebalanceScan(rc, row + 1, [st EXCEPT !.rowCount = st.rowCount + 1])
       ELSE RebalanceScan(rc, row + 1, st)

RebalanceLoop(rc, wr) ==
  RebalanceScan(rc, 0, [ind |-> 1, rowCount |-> 0, workerRows |-> wr, written |-> {}])

\* rebalanceWorkers without the final loop over the unused entries
rebalanceWorkersNoFill(rc, wr) == RebalanceLoop(rc, wr).workerRows

\* rebalanceWorkers: the loop, then the unused entries are set to numRow
rebalanceWorkers(rc, wr) ==
  LET st == RebalanceLoop(rc, wr)
  IN  [i \in DOMAIN wr |-> IF i >= st.ind THEN numRow ELSE st.workerRows[i]]

\* every thread started at row 0 instead of the start of its range
SpawnFromZero(wr) == [i \in WorkerIdx |-> [run |-> TRUE, row |-> 0]]

\* std::thread(...) for every worker: each starts at the first row of its range
Spawn(wr) == [i \in WorkerIdx |-> [run |-> TRUE, row |-> wr[i]]]

\* only the first thread is joined
AllJoinedFirst == ~workers[0].run

\* for(i...) workers[i].join(): every thread has ended
AllJoined == \A i \in WorkerIdx : ~workers[i].run

\* findUncoveredZero failed: fill colInds, rebalance, start the minimum search
NoZero ==
  /\ pc = "search"
  /\ ~findUncoveredZero.found
  /\ r' = findUncoveredZero.row
  /\ colInds' = fillColInds(colCovered)
  /\ workerRows' = rebalanceWorkers(rowCovered, workerRows)
  /\ workerCosts' = [i \in WorkerIdx |-> vFill]
  /\ workers' = Spawn(workerRows')
  /\ pc' = "findmin"
  /\ UNCHANGED <<rows, cols, cost, orig, colCovered, rowCovered, zeros,
                 primedZeros, primedSince, starredZeros, rowSequence, colSequence, colMin,
                 c, h, snap>>

\* ------------------------------------------------------------------------
\* findMinUncoveredCost and its workers
\* ------------------------------------------------------------------------
\* one row of findMinUncoveredCostWorker: the running minimum over colInds
RECURSIVE MinOverColInds(_, _, _, _, _)
MinOverColInds(cst, ci, row, j, acc) ==
  IF j > Len(ci) THEN acc
  ELSE MinOverColInds(cst, ci, row, j + 1,
         IF Less(Cell(cst, row, ci[j]), acc) THEN Cell(cst, row, ci[j]) ELSE acc)

\* the running minimum started afresh in every row
findMinUncoveredCostRowReset(cst, rc, ci, row, acc) ==
  IF ~rc[row] THEN MinOverColInds(cst, ci, row, 1, vFill) ELSE acc

findMinUncoveredCostRow(cst, rc, ci, row, acc) ==
  IF ~rc[row] THEN MinOverColInds(cst, ci, row, 1, acc) ELSE acc

\* worker i handles its current row, and ends after the last row of its range
findMinUncoveredCostWorker(i) ==
  /\ pc = "findmin"
  /\ workers[i].run
  /\ IF workers[i].row < workerRows[i + 1]
     THEN /\ workerCosts' = [workerCosts EXCEPT ![i] =
               findMinUncoveredCostRow(cost, rowCovered, colInds, workers[i].row, @)]
          /\ workers' = [workers EXCEPT ![i] =
               [run |-> workers[i].row + 1 < workerRows[i + 1], row |-> workers[i].row + 1]]
     ELSE /\ workers' = [workers EXCEPT ![i].run = FALSE]
          /\ UNCHANGED workerCosts
  /\ UNCHANGED <<rows, cols, cost, orig, colCovered, rowCovered, zeros,
                 primedZeros, primedSince, starredZeros, rowSequence, colSequence, colInds,
                 workerRows, colMin, r, c, h, snap, pc>>

\* the result of the first worker alone
MinWorkerCostFirst(wc, i, best) == wc[0]

\* *std::min_element(workerCosts)
RECURSIVE MinWorkerCost(_, _, _)
MinWorkerCost(wc, i, best) ==
  IF i >= W THEN best
  ELSE MinWorkerCost(wc, i + 1, IF Less(wc[i], best) THEN wc[i] ELSE best)

\* every worker joined: h = the minimum of the workers' results
JoinFindMin ==
  /\ pc = "findmin"
  /\ AllJoined
  /\ h' = MinWorkerCost(workerCosts, 1, workerCosts[0])
  /\ pc' = "hcheck"
  /\ UNCHANGED <<rows, cols, cost, orig, colCovered, rowCovered, zeros,
                 primedZeros, primedSince, starredZeros, rowSequence, colSequence, colInds,
                 workers, workerRows, workerCosts, colMin, r, c, snap>>

\* the exit that returns without covering the columns
InfeasibleNoCover ==
  /\ pc = "hcheck"
  /\ h = vFill
  /\ r' = 0
  /\ c' = 0
  /\ h' = 0
  /\ pc' = "loop"
  /\ UNCHANGED <<rows, cols, cost, orig, colCovered, rowCovered, zeros,
                 primedZeros, primedSince, starredZeros, rowSequence, colSequence, colInds,
                 workers, workerRows, workerCosts, colMin, snap>>

\* the exit without its return: the columns are covered and updateCosts(h) runs
InfeasibleFallThrough ==
  /\ pc = "hcheck"
  /\ h = vFill
  /\ colCovered' = [col \in ColIdx |-> TRUE]
  /\ workers' = Spawn(workerRows)
  /\ snap' = [cost |-> cost, zeros |-> zeros]
  /\ pc' = "update"
  /\ UNCHANGED <<rows, cols, cost, orig, rowCovered, zeros, primedZeros, primedSince,
                 starredZeros, rowSequence, colSequence, colInds, workerRows,
                 workerCosts, colMin, r, c, h>>

\* h == vFill: cover every column and return
Infeasible ==
  /\ pc = "hcheck"
  /\ h = vFill
  /\ colCovered' = [col \in ColIdx |-> TRUE]
  /\ r' = 0
  /\ c' = 0
  /\ h' = 0
  /\ pc' = "loop"
  /\ UNCHANGED <<rows, cols, cost, orig, rowCovered, zeros, primedZeros, primedSince,
                 starredZeros, rowSequence, colSequence, colInds, workers,
                 workerRows, workerCosts, colMin, snap>>

\* ------------------------------------------------------------------------
\* updateCosts and its workers
\* ------------------------------------------------------------------------
CallUpdateCosts ==
  /\ pc = "hcheck"
  /\ h # vFill
  /\ workers' = Spawn(workerRows)
  /\ snap' = [cost |-> cost, zeros |-> zeros]
  /\ pc' = "update"
  /\ UNCHANGED <<rows, cols, cost, orig, colCovered, rowCovered, zeros,
                 primedZeros, primedSince, starredZeros, rowSequence, colSequence, colInds,
                 workerRows, workerCosts, colMin, r, c, h>>

InColInds(ci, col) == \E j \in 1 .. Len(ci) : ci[j] = col

\* the update that subtracts h in every column, covered or not
updateCostsRowAllCols(cst, rc, ci, hh, row) ==
  [k \in DOMAIN cst |->
     IF k \div numCol # row THEN cst[k]
     ELSE Minus(IF rc[row] THEN Plus(cst[k], hh) ELSE cst[k], hh)]

\* the update that adds h to a covered row and subtracts it only from the others
updateCostsRowElse(cst, rc, ci, hh, row) ==
  [k \in DOMAIN cst |->
     IF k \div numCol # row THEN cst[k]
     ELSE IF rc[row] THEN Plus(cst[k], hh)
     ELSE IF InColInds(ci, k % numCol) THEN Minus(cst[k], hh) ELSE cst[k]]

\* one row of updateCostsWorker, on the cost matrix
updateCostsRow(cst, rc, ci, hh, row) ==
  [k \in DOMAIN cst |->
     IF k \div numCol # row THEN cst[k]
     ELSE LET added == IF rc[row] THEN Plus(cst[k], hh) ELSE cst[k]
          IN  IF InColInds(ci, k % numCol) THEN Minus(added, hh) ELSE added]

\* the zero list without zeros[row].clear()
updateZerosRowNoClear(cst, zs, rc, ci, hh, row) ==
  zs \o SelectSeq(ci, LAMBDA col :
          Cell([k \in DOMAIN cst |->
                  IF k \div numCol # row THEN cst[k]
                  ELSE LET added == IF rc[row] THEN Plus(cst[k], hh) ELSE cst[k]
                       IN  IF InColInds(ci, k % numCol) THEN Minus(added, hh) ELSE added],
               row, col) = 0)

\* one row of updateCostsWorker, on the row's zero list
updateZerosRow(cst, zs, rc, ci, hh, row) ==
  (IF rc[row] THEN <<>> ELSE zs)
    \o SelectSeq(ci, LAMBDA col : Cell(updateCostsRow(cst, rc, ci, hh, row), row, col) = 0)

updateCostsWorker(i) ==
  /\ pc = "update"
  /\ workers[i].run
  /\ IF workers[i].row < workerRows[i + 1]
     THEN /\ cost' = updateCostsRow(cost, rowCovered, colInds, h, workers[i].row)
          /\ zeros' = [zeros EXCEPT ![workers[i].row] =
               updateZerosRow(cost, @, rowCovered, colInds, h, workers[i].row)]
          /\ workers' = [workers EXCEPT ![i] =
               [run |-> workers[i].row + 1 < workerRows[i + 1], row |-> workers[i].row + 1]]
     ELSE /\ workers' = [workers EXCEPT ![i].run = FALSE]
          /\ UNCHANGED <<cost, zeros>>
  /\ UNCHANGED <<rows, cols, orig, colCovered, rowCovered, primedZeros, primedSince,
                 starredZeros, rowSequence, colSequence, colInds, workerRows,
                 workerCosts, colMin, r, c, h, snap, pc>>

\* every worker joined: iterate() returns
JoinUpdate ==
  /\ pc = "update"
  /\ AllJoined
  /\ snap' = NoSnap
  /\ r' = 0
  /\ c' = 0
  /\ h' = 0
  /\ pc' = "loop"
  /\ UNCHANGED <<rows, cols, cost, orig, colCovered, rowCovered, zeros,
                 primedZeros, primedSince, starredZeros, rowSequence, colSequence, colInds,
                 workers, workerRows, workerCosts, colMin>>

\* ------------------------------------------------------------------------
\* Specification
\* ------------------------------------------------------------------------
Costs == 0 .. MaxCost

CallSetCost == \E row \in 0 .. rows - 1, col \in 0 .. cols - 1, v \in Costs : setCost(row, col, v)

FindMinStep == \E i \in WorkerIdx : findMinUncoveredCostWorker(i)

UpdateStep == \E i \in WorkerIdx : updateCostsWorker(i)

ComputeStep ==
  \/ ReduceRows
  \/ ReduceCols
  \/ StarZeros
  \/ CallIterate
  \/ Return
  \/ CoverShift
  \/ StartPath
  \/ ExtendPath
  \/ Augment
  \/ NoZero
  \/ FindMinStep
  \/ JoinFindMin
  \/ Infeasible
  \/ CallUpdateCosts
  \/ UpdateStep
  \/ JoinUpdate

Next == CallSetCost \/ ComputeStep

Spec == Init /\ [][Next]_vars

\* The driver's use: construct, then setCost on every cell of the rows x cols
\* matrix, then compute().  FilledInit is the state after the fill loop.
FilledBy(m) ==
  [k \in 0 .. numRow * numCol - 1 |->
     IF k \div numCol < rows /\ k % numCol < cols
     THEN m[(k \div numCol) * cols + (k % numCol)]
     ELSE vFill]

FilledInit ==
  /\ \E nr \in 1 .. MaxDim, nc \in 1 .. MaxDim, hc \in 0 .. MaxWorkers :
        /\ Members(nr, nc, hc)
        /\ \E m \in [0 .. nr * nc - 1 -> 0 .. MaxFillCost] : cost = FilledBy(m)
  /\ orig = cost
  /\ colMin = <<>>
  /\ r = 0
  /\ c = 0
  /\ h = 0
  /\ snap = NoSnap
  /\ pc = "idle"

FilledSpec == FilledInit /\ [][ComputeStep]_vars

\* the driver fills every real cell with a cost from the whole finite range
\* of T: zero, half the largest finite value, the largest finite value
WideCosts == {0, MaxFinite \div 2, MaxFinite}

WideInit ==
  /\ \E nr \in 1 .. MaxDim, nc \in 1 .. MaxDim, hc \in 0 .. MaxWorkers :
        /\ Members(nr, nc, hc)
        /\ \E m \in [0 .. nr * nc - 1 -> WideCosts] : cost = FilledBy(m)
  /\ orig = cost
  /\ colMin = <<>>
  /\ r = 0
  /\ c = 0
  /\ h = 0
  /\ snap = NoSnap
  /\ pc = "idle"

WideSpec == WideInit /\ [][ComputeStep]_vars

\* compute(), once called, is never suspended: its own steps and the steps
\* of the threads it started keep being scheduled
RunStep == pc # "idle" /\ ComputeStep

FairSpec == Spec /\ WF_vars(RunStep)

\* ------------------------------------------------------------------------
\* Vocabulary of the properties
\* ------------------------------------------------------------------------
RealRows == 0 .. rows - 1
RealCols == 0 .. cols - 1

\* every cell the caller could set holds a finite cost
RealCellsFinite == \A row \in RealRows, col \in RealCols : IsFinite(Cell(orig, row, col))

Injective(f) == \A x, y \in DOMAIN f : x # y => f[x] # f[y]

\* every assignment of a distinct column to each row
ColumnPermutations == {p \in [RowIdx -> ColIdx] : Injective(p)}

\* the pairs (row, column) of an assignment vector
Pairs(sz) == {<<row, sz[row]>> : row \in {x \in DOMAIN sz : sz[x] # NoCol}}

RECURSIVE PairsCost(_)
PairsCost(ps) ==
  IF ps = {} THEN 0
  ELSE LET pr == CHOOSE x \in ps : TRUE
       IN  Cell(orig, pr[1], pr[2]) + PairsCost(ps \ {pr})

\* --- C1 ---
\* C1: for a square matrix with finite entries only, compute() returns a
\* permutation of the columns whose total original cost is the minimum over
\* all permutations.
C1_SquareOptimal ==
  (pc = "done" /\ rows = cols /\ RealCellsFinite) =>
     /\ starredZeros \in ColumnPermutations
     /\ \A p \in ColumnPermutations : PairsCost(Pairs(starredZeros)) <= PairsCost(Pairs(p))

\* a 3 x 3 finite matrix was solved, and the optimum is not free
C1_Witness ==
  /\ pc = "done" /\ rows = cols /\ rows >= 3 /\ RealCellsFinite
  /\ PairsCost(Pairs(starredZeros)) > 0

\* --- C2 ---
\* the one-to-one matchings that match every entry of the shorter dimension,
\* as sets of (row, column) pairs over the real rows and columns
FullMatchings ==
  IF rows <= cols
  THEN {{<<row, f[row]>> : row \in RealRows} : f \in {g \in [RealRows -> RealCols] : Injective(g)}}
  ELSE {{<<f[col], col>> : col \in RealCols} : f \in {g \in [RealCols -> RealRows] : Injective(g)}}

\* the returned pairs whose row and column are both real
RealPairs(sz) == {pr \in Pairs(sz) : pr[1] \in RealRows /\ pr[2] \in RealCols}

\* C2: for a rectangular input with finite real cells, the real pairs that
\* compute() returns form a matching of the whole shorter dimension of
\* minimum total original cost.
C2_RectangularOptimal ==
  (pc = "done" /\ rows # cols /\ RealCellsFinite) =>
     /\ RealPairs(starredZeros) \in FullMatchings
     /\ \A m \in FullMatchings : PairsCost(RealPairs(starredZeros)) <= PairsCost(m)

\* --- C3 ---
\* C3: for a rectangular input with finite real cells, every entry of the
\* shorter dimension is matched to a real counterpart, padding rows and rows
\* that would fall on a padding column are unassigned, and every returned
\* column has a finite original cost in its row.
C3_PaddingUnassigned ==
  (pc = "done" /\ rows # cols /\ RealCellsFinite) =>
     /\ rows < cols => \A row \in RealRows : starredZeros[row] \in RealCols
     /\ rows > cols => \A col \in RealCols : \E row \in RealRows : starredZeros[row] = col
     /\ \A row \in RowIdx \ RealRows : starredZeros[row] = NoCol
     /\ \A row \in RealRows : starredZeros[row] \in RealCols \cup {NoCol}
     /\ \A row \in RowIdx : starredZeros[row] # NoCol =>
           /\ starredZeros[row] \in ColIdx
           /\ IsFinite(Cell(orig, row, starredZeros[row]))

\* a rectangular input was solved and left a row unassigned
C3_Witness ==
  /\ pc = "done" /\ rows # cols /\ RealCellsFinite
  /\ \E row \in RowIdx : starredZeros[row] = NoCol
  /\ \E row \in RowIdx : starredZeros[row] # NoCol

\* --- C4 ---
\* the one-to-one matchings over cells of finite original cost
FiniteMatchings ==
  {m \in [RowIdx -> ColIdx \cup {NoCol}] :
     /\ \A x, y \in RowIdx : (x # y /\ m[x] # NoCol) => m[x] # m[y]
     /\ \A x \in RowIdx : m[x] # NoCol => IsFinite(Cell(orig, x, m[x]))}

\* C4: the returned matching is a matching over finite cells with as many
\* pairs as any such matching has: a row is unassigned only when the
\* finite cells do not allow one more row to be matched.
C4_MaximumMatching ==
  pc = "done" =>
     /\ starredZeros \in FiniteMatchings
     /\ \A m \in FiniteMatchings : Cardinality(Pairs(m)) <= Cardinality(Pairs(starredZeros))

\* a square input with sentinel cells was solved, a real row stays
\* unassigned and at least two rows are assigned
C4_Witness ==
  /\ pc = "done" /\ rows = cols /\ ~RealCellsFinite
  /\ \E row \in RealRows : starredZeros[row] = NoCol
  /\ Cardinality(Pairs(starredZeros)) >= 2

\* --- C5 ---
\* C5: compute(), once called, terminates: it reaches its return with every
\* column covered.
C5_Terminates == (pc # "idle") ~> (pc = "done" /\ AllColsCovered)

\* compute() returned after at least one cost update and one augmentation
C5_Witness ==
  /\ pc = "done" /\ AllColsCovered
  /\ Len(colInds) > 0
  /\ Len(rowSequence) > 0
  /\ cost # ColReduced(RowReduced(orig), [col \in ColIdx |-> ColMinFrom(RowReduced(orig), col, 0, vFill)])

\* --- C6 ---
\* the run of one worker over its range 0 .. numRow-1
RECURSIVE OneWorkerMin(_, _, _, _, _)
OneWorkerMin(cst, rc, ci, row, acc) ==
  IF row >= numRow THEN acc
  ELSE OneWorkerMin(cst, rc, ci, row + 1, findMinUncoveredCostRow(cst, rc, ci, row, acc))

RECURSIVE OneWorkerUpdate(_, _, _, _, _)
OneWorkerUpdate(st, rc, ci, hh, row) ==
  IF row >= numRow THEN st
  ELSE OneWorkerUpdate(
         [cost |-> updateCostsRow(st.cost, rc, ci, hh, row),
          zeros |-> [st.zeros EXCEPT ![row] =
                       updateZerosRow(st.cost, @, rc, ci, hh, row)]],
         rc, ci, hh, row + 1)

\* C6: for every number of workers and every interleaving of their steps,
\* findMinUncoveredCost returns what one worker returns, and updateCosts
\* leaves the cost matrix and the zero lists one worker leaves; the rest of
\* compute() is sequential, so the returned matching and its cost are those
\* of the run with one worker.
C6_WorkersAgree ==
  /\ pc = "hcheck" => h = OneWorkerMin(cost, rowCovered, colInds, 0, vFill)
  /\ (pc = "update" /\ AllJoined) =>
        [cost |-> cost, zeros |-> zeros] = OneWorkerUpdate(snap, rowCovered, colInds, h, 0)

\* two workers both had rows to update, and the update changed the matrix
C6_Witness ==
  /\ pc = "update" /\ AllJoined /\ W >= 2
  /\ workerRows[1] > 0 /\ workerRows[1] < numRow
  /\ cost # snap.cost

\* --- C7 ---
\* the minimum over the cells whose row and column are uncovered
UncoveredCells ==
  {Cell(cost, row, col) : row \in {x \in RowIdx : ~rowCovered[x]},
                          col \in {y \in ColIdx : ~colCovered[y]}}

MinUncovered ==
  CHOOSE v \in UncoveredCells \cup {vFill} :
     \A w \in UncoveredCells \cup {vFill} : ~Less(w, v)

\* C7: when the search found no uncovered zero and the minimum uncovered
\* cost is the sentinel, iterate() updates no cost, keeps the stars, covers
\* every column and returns; compute() then returns the stars as they are.
C7_InfeasibleExit ==
  [][ /\ (pc = "hcheck" /\ MinUncovered = vFill) =>
           /\ cost' = cost /\ zeros' = zeros /\ starredZeros' = starredZeros
           /\ \A col \in ColIdx : colCovered'[col]
           /\ pc' = "loop"
      /\ (pc = "loop" /\ AllColsCovered) =>
           /\ pc' = "done" /\ starredZeros' = starredZeros ]_vars

\* a row entirely sentinel among otherwise finite data: iterate() has left
\* through the infeasible exit with a row unassigned and the others assigned
C7_Witness ==
  /\ pc = "loop" /\ AllColsCovered /\ rows = cols /\ rows >= 2
  /\ \E row \in RowIdx :
        /\ \A col \in ColIdx : Cell(orig, row, col) = vFill
        /\ \A other \in RowIdx \ {row}, col \in ColIdx : IsFinite(Cell(orig, other, col))
        /\ starredZeros[row] = NoCol
        /\ \A other \in RowIdx \ {row} : starredZeros[other] # NoCol

\* --- C8 ---
\* C8: in every state the stars are a partial one-to-one matching: each row
\* holds one column or none, and no column is the star of two rows.
C8_StarsOneToOne ==
  /\ \A row \in RowIdx : starredZeros[row] \in ColIdx \cup {NoCol}
  /\ \A x, y \in RowIdx : (x # y /\ starredZeros[x] # NoCol) => starredZeros[x] # starredZeros[y]

\* an augmentation along a sequence of at least two pairs has been applied
C8_Witness ==
  /\ pc = "loop" /\ Len(rowSequence) >= 2
  /\ \A i \in 1 .. Len(rowSequence) : starredZeros[rowSequence[i]] = colSequence[i]

\* --- C9 ---
HoldsStar(sz, col) == \E row \in RowIdx : sz[row] = col

ReturnsFromIterate == pc \in {"path", "hcheck", "update"} /\ pc' = "loop"

\* C9 as stated: at every return of iterate(), a column is covered iff it
\* holds a star or the infeasible exit covered every column.
C9_AsStated ==
  [][ ReturnsFromIterate =>
        \A col \in ColIdx :
           colCovered'[col] <=> (HoldsStar(starredZeros', col) \/ pc = "hcheck") ]_vars

\* C9 amended: at every return of iterate(), a column is covered iff it holds
\* a star whose row is not covered, or the infeasible exit covered every
\* column.
C9_CoveredColumns ==
  [][ ReturnsFromIterate =>
        \A col \in ColIdx :
           colCovered'[col] <=>
              \/ \E row \in RowIdx : starredZeros'[row] = col /\ ~rowCovered'[row]
              \/ pc = "hcheck" ]_vars

\* iterate() has returned after a cost update with a row covered, and its
\* star's column uncovered
C9_Witness ==
  /\ pc = "loop" /\ ~AllColsCovered
  /\ \E row \in RowIdx :
        rowCovered[row] /\ starredZeros[row] # NoCol /\ ~colCovered[starredZeros[row]]

\* --- C10 ---
\* C10: after the initial scan and after every cost update, the zero list of
\* every row holds exactly the columns whose reduced cost is zero, each once.
C10_ZerosExact ==
  pc \in {"loop", "search", "path", "findmin", "hcheck", "done"} =>
     \A row \in RowIdx :
        /\ {zeros[row][i] : i \in 1 .. Len(zeros[row])} = {col \in ColIdx : IsZeroCell(cost, row, col)}
        /\ \A i, j \in 1 .. Len(zeros[row]) : i # j => zeros[row][i] # zeros[row][j]

\* a cost update has returned: it cleared a covered row's list and pushed a
\* new zero onto the list of an uncovered row
C10_Witness ==
  /\ pc = "loop" /\ Len(colInds) > 0 /\ ~AllColsCovered
  /\ \E row \in RowIdx : rowCovered[row]
  /\ \E row \in RowIdx :
        /\ ~rowCovered[row]
        /\ \E i \in 1 .. Len(zeros[row]) : InColInds(colInds, zeros[row][i])

\* --- C11 ---
\* a zero cell whose row and column are both uncovered
UncoveredZeroCell(cst, rc, cc) ==
  \E row \in RowIdx, col \in ColIdx : ~rc[row] /\ ~cc[col] /\ IsZeroCell(cst, row, col)

\* C11: once the row and column reduction are done every cell is >= 0 and
\* stays so, and every cost update returns with a zero cell whose row and
\* column are both uncovered.
C11_ReducedCosts ==
  [][ /\ pc' \notin {"idle", "colreduce"} =>
           \A k \in DOMAIN cost' : cost'[k] # NaN /\ cost'[k] >= 0
      /\ (pc = "update" /\ pc' = "loop") =>
           UncoveredZeroCell(cost', rowCovered', colCovered') ]_vars

\* a cost update has returned: a doubly covered cell was raised and an
\* uncovered zero was made
C11_Witness ==
  /\ pc = "loop" /\ ~AllColsCovered
  /\ \E row \in RowIdx : rowCovered[row]
  /\ \E row \in RowIdx, col \in ColIdx :
        rowCovered[row] /\ colCovered[col] /\ IsFinite(Cell(cost, row, col)) /\ Cell(cost, row, col) > 0
  /\ UncoveredZeroCell(cost, rowCovered, colCovered)

\* --- C12 ---
StarCount(sz) == Cardinality({row \in RowIdx : sz[row] # NoCol})

Augmenting == pc = "path" /\ pc' = "loop"

\* C12: every augmentation raises the number of starred rows by exactly one
\* (never beyond numRow), and after the initial starring no other step
\* changes the stars; so the count never decreases and there are at most
\* numRow augmentations.
C12_StarsGrow ==
  [][ /\ Augmenting =>
           /\ StarCount(starredZeros') = StarCount(starredZeros) + 1
           /\ StarCount(starredZeros') <= numRow
      /\ (pc # "star" /\ ~Augmenting) => starredZeros' = starredZeros ]_vars

\* compute() returned a full assignment after an augmentation that also
\* moved an existing star
C12_Witness ==
  /\ pc = "done" /\ numRow >= 3
  /\ StarCount(starredZeros) = numRow
  /\ Len(rowSequence) >= 2

\* ------------------------------------------------------------------------
\* rebalanceWorkers on every coverage pattern
\* ------------------------------------------------------------------------
\* A solver of any size and worker count; rowCovered takes every value and
\* rebalanceWorkers is called on it, over whatever the previous call left
\* in workerRows.
PatternInit ==
  /\ \E n \in 1 .. MaxPatternRows, hc \in 1 .. MaxPatternWorkers : Hungarian(n, n, hc)
  /\ orig = cost
  /\ colMin = <<>>
  /\ r = 0
  /\ c = 0
  /\ h = 0
  /\ snap = NoSnap
  /\ pc = "pattern"

CoverRows ==
  /\ pc \in {"pattern", "rebalanced"}
  /\ rowCovered' \in [RowIdx -> BOOLEAN]
  /\ pc' = "pattern"
  /\ UNCHANGED <<rows, cols, cost, orig, colCovered, zeros, primedZeros, primedSince,
                 starredZeros, rowSequence, colSequence, colInds, workers,
                 workerRows, workerCosts, colMin, r, c, h, snap>>

CallRebalanceWorkers ==
  /\ pc = "pattern"
  /\ workerRows' = rebalanceWorkers(rowCovered, workerRows)
  /\ pc' = "rebalanced"
  /\ UNCHANGED <<rows, cols, cost, orig, colCovered, rowCovered, zeros,
                 primedZeros, primedSince, starredZeros, rowSequence, colSequence, colInds,
                 workers, workerCosts, colMin, r, c, h, snap>>

PatternNext == CoverRows \/ CallRebalanceWorkers

PatternSpec == PatternInit /\ [][PatternNext]_vars

\* --- C13 ---
\* the rows worker i visits: workerRows[i] <= row < workerRows[i+1]
WorkerRange(wr, i) == {row \in RowIdx : wr[i] <= row /\ row < wr[i + 1]}

\* for every coverage pattern and worker count up to the pattern bounds, the
\* ranges that rebalanceWorkers leaves put each row in exactly one of them
RangesPartition(wr) ==
  \A row \in RowIdx :
     Cardinality({i \in WorkerIdx : row \in WorkerRange(wr, i)}) = 1

\* a step taken by a worker thread of either parallel phase
WorkerStep == pc \in {"findmin", "update"} /\ pc' = pc

\* C13: whenever workers run, the ranges [workerRows[i], workerRows[i+1])
\* are pairwise disjoint and contain every row exactly once, and a step of a
\* worker visits a row of its own range only: it changes no other row of
\* cost or zeros, no other slot of workerCosts and no other worker.
C13_OwnRows ==
  [][ /\ pc' \in {"findmin", "update"} => RangesPartition(workerRows')
      /\ WorkerStep =>
           \E i \in WorkerIdx :
              /\ workers[i].run
              /\ workers[i].row < workerRows[i + 1] =>
                    workers[i].row \in WorkerRange(workerRows, i)
              /\ \A j \in WorkerIdx \ {i} :
                    workers'[j] = workers[j] /\ workerCosts'[j] = workerCosts[j]
              /\ \A k \in DOMAIN cost :
                    cost'[k] # cost[k] => index(workers[i].row) <= k /\ k < index(workers[i].row + 1)
              /\ \A row \in RowIdx :
                    zeros'[row] # zeros[row] => row = workers[i].row ]_vars

\* two workers with a row each in the cost update: one has written its rows
\* and ended, the other is still running
C13_Witness ==
  /\ pc = "update" /\ W = 2
  /\ WorkerRange(workerRows, 0) # {} /\ WorkerRange(workerRows, 1) # {}
  /\ ~workers[0].run /\ workers[1].run
  /\ cost # snap.cost

\* --- C14 ---
\* no worker thread is running
NoWorkerRuns == \A i \in WorkerIdx : ~workers[i].run

\* C14: the two parallel phases end at a barrier.  The minimum is read from
\* workerCosts only when every min-search worker has ended, the update
\* workers are started only after that minimum was taken, iterate() returns
\* from updateCosts only when every update worker has ended, and cost is
\* written by an update worker only while no min-search worker runs.
C14_Barrier ==
  [][ /\ (pc = "findmin" /\ pc' # "findmin") =>
            /\ NoWorkerRuns
            /\ pc' = "hcheck"
            /\ h' = MinWorkerCost(workerCosts, 1, workerCosts[0])
      /\ (pc # "update" /\ pc' = "update") =>
            /\ pc = "hcheck"
            /\ NoWorkerRuns
            /\ workers' = Spawn(workerRows)
      /\ (pc = "update" /\ pc' # "update") => NoWorkerRuns /\ pc' = "loop"
      /\ pc = "findmin" => cost' = cost /\ zeros' = zeros
      /\ (pc = "update" /\ pc' = "update") => workerCosts' = workerCosts /\ h' = h ]_vars

\* the min search with one worker ended on a finite minimum while the other
\* still runs
C14_Witness ==
  /\ pc = "findmin" /\ W = 2
  /\ ~workers[0].run /\ workers[1].run
  /\ IsFinite(workerCosts[0])
  /\ workers[1].row < workerRows[2]

\* --- C15 ---
\* C15: throughout compute() a cell holds the sentinel exactly when it held
\* it before compute() started, and no cell is the result of subtracting the
\* sentinel from the sentinel.
C15_SentinelKept ==
  pc # "idle" =>
     \A k \in DOMAIN cost : cost[k] # NaN /\ (cost[k] = vFill <=> orig[k] = vFill)

\* --- C16 ---
\* compute() is past the initial starring and no cost update is under way
StarsSettled == pc \in {"loop", "search", "path", "findmin", "hcheck", "done"}

\* C16: after the initial starring, after every augmentation and after every
\* cost update, every starred cell is a zero of the current cost matrix, so
\* every returned pair is a zero cell.
C16_StarsAreZeros ==
  StarsSettled =>
     \A row \in RowIdx :
        starredZeros[row] # NoCol => Cell(cost, row, starredZeros[row]) = 0

\* a cost update has just ended with a star in a covered row, whose cell got
\* h added and subtracted again
C16_Witness ==
  /\ pc = "loop" /\ ~AllColsCovered
  /\ \E row \in RowIdx :
        /\ rowCovered[row]
        /\ starredZeros[row] # NoCol
        /\ ~colCovered[starredZeros[row]]
        /\ \E col \in ColIdx : colCovered[col] /\ Cell(cost, row, col) # Cell(orig, row, col)

\* --- C17 ---
\* the path build takes one more step of its while loop
Extending == pc = "path" /\ pc' = "path"

\* C17: whenever the path build follows the star of the current column
\* to its row and reads that row's prime, the row is covered, was primed
\* since the last augmentation, and the primed cell is a zero in an uncovered
\* column; the sequence never grows beyond numRow entries.
C17_FreshPrimes ==
  [][ Extending =>
        LET f == findStarredZeroInCol(starredZeros, c)
        IN  /\ f.found
            /\ rowCovered[f.row]
            /\ f.row \in primedSince
            /\ Cell(cost, f.row, primedZeros[f.row]) = 0
            /\ ~colCovered[primedZeros[f.row]]
            /\ c' = primedZeros[f.row]
            /\ Len(rowSequence') <= numRow ]_vars

\* a path of two rows or more is built while another row holds a prime that
\* is stale or was never written and points at a non-zero cell
C17_Witness ==
  /\ pc = "path"
  /\ Len(rowSequence) >= 2
  /\ \E row \in RowIdx \ primedSince : Cell(cost, row, primedZeros[row]) # 0

\* --- C18 ---
\* a call of rebalanceWorkers on the current coverage pattern
Rebalancing == pc = "pattern" /\ pc' = "rebalanced"

\* C18: for every coverage pattern and worker count, rebalanceWorkers
\* assigns only the entries 1..W of workerRows, and leaves workerRows
\* non-decreasing with workerRows[0] = 0 and workerRows[W] = numRow.
C18_WorkerRowsShape ==
  [][ Rebalancing =>
        /\ RebalanceLoop(rowCovered, workerRows).written \subseteq 1 .. W
        /\ RebalanceLoop(rowCovered, workerRows).ind >= 1
        /\ DOMAIN workerRows' = 0 .. W
        /\ workerRows'[0] = 0
        /\ workerRows'[W] = numRow
        /\ \A i \in WorkerIdx : workerRows'[i] <= workerRows'[i + 1] ]_vars

\* three workers or more got a non-empty range each, the loop assigned every
\* entry below W, and covered rows lie among the ranges
C18_Witness ==
  /\ pc = "rebalanced" /\ W >= 3
  /\ \E row \in RowIdx : rowCovered[row]
  /\ \A i \in WorkerIdx : WorkerRange(workerRows, i) # {}

\* --- C19 ---
\* the uncovered rows of worker i's range
UncoveredInRange(wr, rc, i) == {row \in WorkerRange(wr, i) : ~rc[row]}

\* ceil(a / b)
CeilDiv(a, b) == (a + b - 1) \div b

\* C19: after rebalanceWorkers, no worker's range holds more uncovered rows
\* than the number of uncovered rows divided by the worker count, rounded up.
C19_EvenShare ==
  pc = "rebalanced" =>
     \A i \in WorkerIdx :
        Cardinality(UncoveredInRange(workerRows, rowCovered, i))
           <= CeilDiv(uncoveredRows(rowCovered), W)

====
